---- MODULE Spec2Model ----
(***************************************************************************)
(* Model of the question-answering service: the numbered-answer parser and *)
(* the batched synthesizer of app/services/combined_agent.py, and the      *)
(* request orchestrator with its per-question fallback pipeline of         *)
(* app/api/endpoints/run.py.                                               *)
(*                                                                         *)
(* Texts are sequences of one-character strings.  "NF" abbreviates the     *)
(* 45-character phrase "Information not found in the policy document",     *)
(* which holds no digit, no period and no line break and neither starts    *)
(* nor ends with whitespace, so the parser treats it like one ordinary     *)
(* character.  "^2" is a character such as SUPERSCRIPT TWO, for which       *)
(* str.isdigit() is true and int() raises ValueError.                      *)
(***************************************************************************)
EXTENDS Integers, Sequences, FiniteSets, TLC

\* ---------------------------------------------------------------- bounds
MaxTextLen == 5
MaxQ == 2
MaxLines == 2
MaxHits == 2
MaxTriesBound == 3
MaxRequests == 2
\* the longest question list of a request under SpecLive
LiveMaxQ == 1

\* ------------------------------------------------- text helper functions
Alphabet == {"1", "2", ".", " ", "\n", "a", "^2"}

IsDigit(c) == c \in {"0", "1", "2", "3", "4", "5", "6", "7", "8", "9", "^2"}

IsSpace(c) == c \in {" ", "\t", "\r", "\n"}

DigitVal(c) ==
  CASE c = "0" -> 0 [] c = "1" -> 1 [] c = "2" -> 2 [] c = "3" -> 3
    [] c = "4" -> 4 [] c = "5" -> 5 [] c = "6" -> 6 [] c = "7" -> 7
    [] c = "8" -> 8 [] c = "9" -> 9 [] OTHER -> -1

RECURSIVE SplitFrom(_, _, _)
SplitFrom(t, i, cur) ==
  IF i > Len(t) THEN <<cur>>
  ELSE IF t[i] = "\n" THEN <<cur>> \o SplitFrom(t, i + 1, <<>>)
  ELSE SplitFrom(t, i + 1, Append(cur, t[i]))

\* str.split('\n')
SplitLines(t) == SplitFrom(t, 1, <<>>)

RECURSIVE LStrip(_)
LStrip(t) == IF t # <<>> /\ IsSpace(Head(t)) THEN LStrip(Tail(t)) ELSE t

RECURSIVE RStrip(_)
RStrip(t) ==
  IF t # <<>> /\ IsSpace(t[Len(t)]) THEN RStrip(SubSeq(t, 1, Len(t) - 1)) ELSE t

\* str.strip()
Strip(t) == RStrip(LStrip(t))

\* the while loop of lines 147-149: number of leading isdigit() characters
RECURSIVE DigitRun(_, _)
DigitRun(line, j) ==
  IF j < Len(line) /\ IsDigit(line[j + 1]) THEN DigitRun(line, j + 1) ELSE j

\* int(num_str); -1 stands for ValueError
RECURSIVE IntOf(_)
IntOf(s) ==
  IF s = <<>> THEN 0
  ELSE LET hi == IntOf(SubSeq(s, 1, Len(s) - 1))
           d == DigitVal(s[Len(s)])
       IN IF hi < 0 \/ d < 0 THEN -1 ELSE 10 * hi + d

EmptyMap == [k \in {} |-> <<>>]

MapPut(m, k, v) == [x \in (DOMAIN m) \cup {k} |-> IF x = k THEN v ELSE m[x]]

\* ParseLine with the test "if ans:" of line 155 dropped
ParseLine_KeepEmpty(answers, raw) ==
  LET line == Strip(raw)
  IN IF line = <<>> THEN answers
     ELSE IF ~IsDigit(line[1]) THEN answers
     ELSE LET j == DigitRun(line, 0)
              num_str == SubSeq(line, 1, j)
          IN IF j < Len(line) /\ line[j + 1] = "."
             THEN LET idx == IntOf(num_str)
                      ans == Strip(SubSeq(line, j + 2, Len(line)))
                  IN IF idx < 0 THEN answers ELSE MapPut(answers, idx, ans)
             ELSE answers

\* one iteration of the loop over the lines (lines 138-158)
ParseLine(answers, raw) ==
  LET line == Strip(raw)
  IN IF line = <<>> THEN answers
     ELSE IF ~IsDigit(line[1]) THEN answers
     ELSE LET j == DigitRun(line, 0)
              num_str == SubSeq(line, 1, j)
          IN IF j < Len(line) /\ line[j + 1] = "."
             THEN LET idx == IntOf(num_str)
                      ans == Strip(SubSeq(line, j + 2, Len(line)))
                  IN IF idx < 0 THEN answers
                     ELSE IF ans # <<>> THEN MapPut(answers, idx, ans)
                     ELSE answers
             ELSE answers

RECURSIVE ParseLines(_, _, _)
ParseLines(lines, i, answers) ==
  IF i > Len(lines) THEN answers
  ELSE ParseLines(lines, i + 1, ParseLine(answers, lines[i]))

parse_numbered_answers_map(response_text) ==
  ParseLines(SplitLines(response_text), 1, EmptyMap)

\* ------------------------------------------------------ program values
Questions == {"q1", "q2"}

\* "nontext" is a payload that is not a string (str.join raises TypeError)
Chunks == {"c1", "nontext"}

\* "Information not found in the policy document" (combined_agent.py)
Sentinel == <<"NF">>

\* the not-found message of the fallback pipeline (run.py line 192)
NotFoundMessage == <<"I couldn't find specific information">>

\* the error placeholder of synthesize_final_answer (line 64)
ErrorPlaceholder == <<"[An error occurred while generating the final answer.]">>

\* f"An error occurred while processing the question: {question}"
ErrorMessage(question) == <<"An error occurred while processing the question: ", question>>

\* None, or any other falsy answer: the code only tests "if ans" / "not ans"
NoneVal == <<>>

\* max_retries=2 of the call in run_submission
RunMaxRetries == 2

\* max_retries = 2 of run_single_question_pipeline
PipelineMaxRetries == 2

SeqsUpTo(S, n) == UNION {[1..k -> S] : k \in 0..n}

QuestionLists == SeqsUpTo(Questions, MaxQ)

\* what one search_and_rerank call can return: a list of chunk texts
SearchResults == SeqsUpTo(Chunks, MaxHits)

Range(f) == {f[i] : i \in DOMAIN f}

\* SetUpdate adding every item, as list.extend would
SetUpdate_Extend(set, items) == set \o items

\* set.update(items); a Python set is kept as the list of its members, which
\* is what list(set) hands on: an item is added unless an equal one is there
RECURSIVE SetUpdate(_, _)
SetUpdate(set, items) ==
  IF items = <<>> THEN set
  ELSE SetUpdate(IF Head(items) \in Range(set) THEN set
                 ELSE Append(set, Head(items)),
                 Tail(items))

\* lines a completion response is made of
ResponseLines ==
  { <<"1", ".", " ", "a">>,
    <<"2", ".", " ", "b">>,
    <<"1", ".">>,
    <<" ", "1", ".", " ", "b">>,
    <<"2", ".", " ", "NF">>,
    <<"a">> }

RECURSIVE JoinLines(_)
JoinLines(ls) ==
  IF ls = <<>> THEN <<>>
  ELSE IF Len(ls) = 1 THEN ls[1]
  ELSE ls[1] \o <<"\n">> \o JoinLines(Tail(ls))

\* response.text of a batch completion call
ResponseTexts == {JoinLines(ls) : ls \in SeqsUpTo(ResponseLines, MaxLines)}

\* response.text of a single-question completion call
SingleTexts == {<<"a">>, <<"b">>}

\* ------------------------------------------------------------- variables
VARIABLES
  ptext, pmap, pdone,
  questions, context_chunks, max_retries, bpc, answers_map, retry_map,
  results, missing_indices, calls, batch_ret,
  pc, initialized, index, remote, policy_preloaded, ipc, question_cache,
  gi, gather_chunks, answers,
  fi, ppc, pret, research_plan, attempt, pipe_chunks, tpos, top_k, local_chunks,
  run_found, run_attempts, run_yields, runs,
  req, ops, searched,
  inflight, gather_log,
  spc, s_index, top_k_retrieval, top_n_rerank, retrieved_chunks, scores,
  scored_chunks, sret, slog,
  plpc, plan_question, safe_question, response, response_data, plan_ret

parseVars == <<ptext, pmap, pdone>>

batchVars == <<questions, context_chunks, max_retries, bpc, answers_map,
               retry_map, results, missing_indices, calls, batch_ret>>

\* the request handler and the services it keeps
reqVars == <<pc, initialized, index, remote, policy_preloaded, ipc,
             question_cache, gi, gather_chunks, answers>>

\* the fallback loop and the pipeline run of its current question
fbVars == <<fi, ppc, pret, research_plan, attempt, pipe_chunks, tpos, top_k,
            local_chunks, run_found, run_attempts, run_yields, runs>>

\* the number of the request being served; what the request did about the
\* index, in order: <<"skip">> for the else branch of line 77, the operations
\* of the ingestion call it is in or has failed in ("raise" marks the
\* exception that ended the call), <<"ingested">> once the call has returned;
\* the log ends with the index step, at line 82; whether the request has
\* called search_and_rerank
logVars == <<req, ops, searched>>

\* get_comprehensive_context: the questions whose search_and_rerank call is
\* running in a worker thread, and how the search of each question so far
\* ended ("ok" or "fail"); the record is dropped once the batch call runs
gatherVars == <<inflight, gather_log>>

\* one call of search_and_rerank: its position, the index handle, its
\* arguments and locals, its outcome, and the collaborators it has called
searchVars == <<spc, s_index, top_k_retrieval, top_n_rerank, retrieved_chunks,
                scores, scored_chunks, sret, slog>>

\* one call of plan_and_research: its position, argument, locals and result
planVars == <<plpc, plan_question, safe_question, response, response_data,
              plan_ret>>

unitVars == <<searchVars, planVars>>

vars == <<parseVars, batchVars, reqVars, fbVars, logVars, gatherVars,
          unitVars>>

\* no call of search_and_rerank is running
InitSearchIdle ==
  /\ spc = "idle"
  /\ s_index = FALSE
  /\ top_k_retrieval = 0
  /\ top_n_rerank = 0
  /\ retrieved_chunks = <<>>
  /\ scores = <<>>
  /\ scored_chunks = <<>>
  /\ sret = [kind |-> "none", val |-> <<>>]
  /\ slog = <<>>

NoResponse == [status |-> "none", text |-> ""]

NoData == [kind |-> "none", obj |-> EmptyMap]

\* no call of plan_and_research is running
InitPlanIdle ==
  /\ plpc = "idle"
  /\ plan_question = ""
  /\ safe_question = <<>>
  /\ response = NoResponse
  /\ response_data = NoData
  /\ plan_ret = EmptyMap

InitUnitsIdle == InitSearchIdle /\ InitPlanIdle

\* ------------------------------------------------- parser on its own
InitParseIdle ==
  /\ ptext = <<>>
  /\ pmap = EmptyMap
  /\ pdone = TRUE

InitBatchLocals ==
  /\ answers_map = EmptyMap
  /\ retry_map = EmptyMap
  /\ results = <<>>
  /\ missing_indices = <<>>
  /\ calls = <<>>
  /\ batch_ret = <<>>

InitPipelineLocals ==
  /\ research_plan = EmptyMap
  /\ attempt = 0
  /\ pipe_chunks = <<>>
  /\ tpos = EmptyMap
  /\ top_k = EmptyMap
  /\ local_chunks = EmptyMap
  /\ run_found = FALSE
  /\ run_attempts = 0
  /\ run_yields = <<>>

InitFallbackIdle ==
  /\ fi = 0
  /\ ppc = "none"
  /\ pret = <<>>
  /\ runs = <<>>
  /\ InitPipelineLocals

\* no request: the handler is not running
InitRequestIdle ==
  /\ pc = "idle"
  /\ initialized = FALSE
  /\ index = FALSE
  /\ remote = "absent"
  /\ policy_preloaded = FALSE
  /\ ipc = "none"
  /\ question_cache = EmptyMap
  /\ gi = 0
  /\ gather_chunks = <<>>
  /\ answers = <<>>
  /\ InitFallbackIdle
  /\ req = 0
  /\ ops = <<>>
  /\ searched = FALSE
  /\ inflight = {}
  /\ gather_log = <<>>

InitParse ==
  /\ ptext \in SeqsUpTo(Alphabet, MaxTextLen)
  /\ pmap = EmptyMap
  /\ pdone = FALSE
  /\ questions = <<>>
  /\ context_chunks = <<>>
  /\ max_retries = 0
  /\ bpc = "idle"
  /\ InitBatchLocals
  /\ InitRequestIdle
  /\ InitUnitsIdle

ParseApply ==
  /\ ~pdone
  /\ pmap' = parse_numbered_answers_map(ptext)
  /\ pdone' = TRUE
  /\ UNCHANGED <<ptext, batchVars, reqVars, fbVars, logVars, gatherVars,
                 unitVars>>

NextParse == ParseApply

SpecParse == InitParse /\ [][NextParse]_vars

\* ------------------------------- process_all_questions_with_retry
\* answers_map.get(k)
MapGet(m, k) == IF k \in DOMAIN m THEN m[k] ELSE NoneVal

\* the numbered question list of prompt_all (line 45)
QuestionsText(qs) == [i \in 1..Len(qs) |-> <<i, qs[i]>>]

\* MissingQuestionsText numbering the retried questions from 1
MissingQuestionsText_Renumbered(qs, missing) ==
  [n \in 1..Len(missing) |-> <<n, qs[missing[n] + 1]>>]

\* the numbered question list of prompt_missing (line 92)
MissingQuestionsText(qs, missing) ==
  [n \in 1..Len(missing) |-> <<missing[n] + 1, qs[missing[n] + 1]>>]

\* InitialResults reading answers_map.get(i) instead of answers_map.get(i + 1)
InitialResults_OffByOne(qs, m) == [i \in 1..Len(qs) |-> MapGet(m, i - 1)]

\* line 83: results = [answers_map.get(i + 1) for i in range(len(questions))]
InitialResults(qs, m) == [i \in 1..Len(qs) |-> MapGet(m, i)]

RECURSIVE MissingFrom(_, _)
MissingFrom(res, i) ==
  IF i > Len(res) THEN <<>>
  ELSE (IF res[i] = NoneVal THEN <<i - 1>> ELSE <<>>) \o MissingFrom(res, i + 1)

\* line 84: the 0-based indices of the slots without an answer
MissingIndices(res) == MissingFrom(res, 1)

\* Finalize leaving the missing slots as they are
Finalize_KeepNone(res) == res

\* lines 88 and 129
Finalize(res) ==
  [i \in 1..Len(res) |-> IF res[i] # NoneVal THEN res[i] ELSE Sentinel]

\* FillMissing taking every answer of the retry map, not only the missing ones
FillMissing_Overwrite(res, missing, m) ==
  [i \in 1..Len(res) |-> IF MapGet(m, i) # NoneVal THEN m[i] ELSE res[i]]

\* lines 120-123
FillMissing(res, missing, m) ==
  [i \in 1..Len(res) |->
     IF (i - 1) \in Range(missing) /\ MapGet(m, i) # NoneVal
     THEN m[i] ELSE res[i]]

\* line 42: the join raises TypeError on a chunk that is not a string
Batch_Join ==
  /\ bpc = "begin"
  /\ bpc' = IF "nontext" \in Range(context_chunks) THEN "raised"
            ELSE "attempt1"
  /\ UNCHANGED <<questions, context_chunks, max_retries, answers_map,
                 retry_map, results, missing_indices, calls, batch_ret>>

\* lines 83-88 with the map of the first attempt
AfterAttempt1(m, ok) ==
  LET res == InitialResults(questions, m)
      missing == MissingIndices(res)
  IN /\ answers_map' = m
     /\ results' = res
     /\ missing_indices' = missing
     /\ calls' = Append(calls, [prompt |-> QuestionsText(questions), ok |-> ok])
     /\ IF missing = <<>> \/ max_retries <= 1
        THEN bpc' = "returned" /\ batch_ret' = Finalize(res)
        ELSE bpc' = "attempt2" /\ batch_ret' = batch_ret

\* lines 72-88
Batch_Attempt1 ==
  /\ bpc = "attempt1"
  /\ \/ AfterAttempt1(EmptyMap, FALSE)
     \/ \E text \in ResponseTexts :
          AfterAttempt1(parse_numbered_answers_map(Strip(text)), TRUE)
  /\ UNCHANGED <<questions, context_chunks, max_retries, retry_map>>

\* Batch_Attempt2 without the except clause of lines 124-126
Batch_Attempt2_Uncaught ==
  /\ bpc = "attempt2"
  /\ \/ /\ calls' = Append(calls,
             [prompt |-> MissingQuestionsText(questions, missing_indices),
              ok |-> FALSE])
        /\ bpc' = "raised"
        /\ UNCHANGED <<retry_map, results, batch_ret>>
     \/ \E text \in ResponseTexts :
          /\ calls' = Append(calls,
               [prompt |-> MissingQuestionsText(questions, missing_indices),
                ok |-> TRUE])
          /\ retry_map' = parse_numbered_answers_map(Strip(text))
          /\ results' = FillMissing(results, missing_indices, retry_map')
          /\ batch_ret' = Finalize(results')
          /\ bpc' = "returned"
  /\ UNCHANGED <<questions, context_chunks, max_retries, answers_map,
                 missing_indices>>

\* lines 90-129
Batch_Attempt2 ==
  /\ bpc = "attempt2"
  /\ \/ /\ calls' = Append(calls,
             [prompt |-> MissingQuestionsText(questions, missing_indices),
              ok |-> FALSE])
        /\ UNCHANGED <<retry_map, results>>
     \/ \E text \in ResponseTexts :
          /\ calls' = Append(calls,
               [prompt |-> MissingQuestionsText(questions, missing_indices),
                ok |-> TRUE])
          /\ retry_map' = parse_numbered_answers_map(Strip(text))
          /\ results' = FillMissing(results, missing_indices, retry_map')
  /\ batch_ret' = Finalize(results')
  /\ bpc' = "returned"
  /\ UNCHANGED <<questions, context_chunks, max_retries, answers_map,
                 missing_indices>>

InitBatch ==
  /\ InitParseIdle
  /\ questions \in QuestionLists
  /\ context_chunks \in SeqsUpTo(Chunks, MaxHits)
  /\ max_retries \in 0..MaxTriesBound
  /\ bpc = "begin"
  /\ InitBatchLocals
  /\ InitRequestIdle
  /\ InitUnitsIdle

NextBatch ==
  \/ Batch_Join
       /\ UNCHANGED <<parseVars, unitVars, gatherVars, reqVars, fbVars, logVars>>
  \/ Batch_Attempt1
       /\ UNCHANGED <<parseVars, unitVars, gatherVars, reqVars, fbVars, logVars>>
  \/ Batch_Attempt2
       /\ UNCHANGED <<parseVars, unitVars, gatherVars, reqVars, fbVars, logVars>>

SpecBatch == InitBatch /\ [][NextBatch]_vars

\* ------------------------------------------- run_submission: the index
\* line 60: initialize_services and RetrievalService.__init__ (lines 33-47);
\* the index is attached when list_indexes answers and names the index
Run_Initialize ==
  /\ pc = "start"
  /\ IF initialized
     THEN UNCHANGED index
     ELSE \/ index' = (remote # "absent")
          \/ index' = FALSE
  /\ initialized' = TRUE
  /\ pc' = "ensure"
  /\ UNCHANGED <<remote, policy_preloaded, ipc, question_cache, gi,
                 gather_chunks, answers>>

\* Run_EnsureIndex without the test of line 65: it always ingests
Run_EnsureIndex_Always ==
  /\ pc = "ensure"
  /\ pc' = "ingest"
  /\ ipc' = "extract"
  /\ UNCHANGED <<policy_preloaded, ops>>
  /\ UNCHANGED <<req, searched>>
  /\ UNCHANGED <<initialized, index, remote, question_cache, gi,
                 gather_chunks, answers>>

\* lines 65-68 and 77-79: the handle decides, not the index service
Run_EnsureIndex ==
  /\ pc = "ensure"
  /\ IF ~index
     THEN /\ pc' = "ingest"
          /\ ipc' = "extract"
          /\ UNCHANGED <<policy_preloaded, ops>>
     ELSE /\ pc' = "clear"
          /\ policy_preloaded' = TRUE
          /\ ops' = <<"skip">>
          /\ UNCHANGED ipc
  /\ UNCHANGED <<req, searched>>
  /\ UNCHANGED <<initialized, index, remote, question_cache, gi,
                 gather_chunks, answers>>

\* Ingest_Extract going on to the index after a failed extraction
Ingest_Extract_GoOn ==
  /\ pc = "ingest" /\ ipc = "extract"
  /\ \/ ipc' = "setup" /\ ops' = ops \o <<"extract", "raise">>
     \/ ipc' = "setup" /\ ops' = Append(ops, "extract")
  /\ UNCHANGED <<req, searched>>
  /\ UNCHANGED <<pc, initialized, index, remote, policy_preloaded,
                 question_cache, gi, gather_chunks, answers>>

\* ingest_and_process_pdf lines 56-75: extraction, splitting, embedding
Ingest_Extract ==
  /\ pc = "ingest" /\ ipc = "extract"
  /\ \/ ipc' = "raised" /\ ops' = ops \o <<"extract", "raise">>
     \/ ipc' = "setup" /\ ops' = Append(ops, "extract")
  /\ UNCHANGED <<req, searched>>
  /\ UNCHANGED <<pc, initialized, index, remote, policy_preloaded,
                 question_cache, gi, gather_chunks, answers>>

\* lines 79-81: list the indexes and delete the named one if it exists
Ingest_Setup ==
  /\ pc = "ingest" /\ ipc = "setup"
  /\ \/ /\ ipc' = "raised"
        /\ ops' = ops \o <<"list", "raise">>
        /\ UNCHANGED remote
     \/ /\ remote = "absent"
        /\ ipc' = "create"
        /\ ops' = Append(ops, "list")
        /\ UNCHANGED remote
     \/ /\ remote # "absent"
        /\ \/ /\ ipc' = "raised"
              /\ ops' = ops \o <<"list", "found", "delete", "raise">>
              /\ UNCHANGED remote
           \/ /\ ipc' = "create"
              /\ ops' = ops \o <<"list", "found", "delete">>
              /\ remote' = "absent"
  /\ UNCHANGED <<req, searched>>
  /\ UNCHANGED <<pc, initialized, index, policy_preloaded, question_cache,
                 gi, gather_chunks, answers>>

\* lines 84-89
Ingest_Create ==
  /\ pc = "ingest" /\ ipc = "create"
  /\ \/ ipc' = "raised" /\ UNCHANGED remote
        /\ ops' = ops \o <<"create", "raise">>
     \/ ipc' = "poll" /\ remote' = "creating"
        /\ ops' = Append(ops, "create")
  /\ UNCHANGED <<req, searched>>
  /\ UNCHANGED <<pc, initialized, index, policy_preloaded, question_cache,
                 gi, gather_chunks, answers>>

\* Ingest_Poll attaching the index without waiting for it to be ready
Ingest_Poll_NoWait ==
  /\ pc = "ingest" /\ ipc = "poll"
  /\ ipc' = "upsert" /\ index' = TRUE
  /\ ops' = Append(ops, "attach")
  /\ UNCHANGED remote
  /\ UNCHANGED <<req, searched>>
  /\ UNCHANGED <<pc, initialized, policy_preloaded, question_cache, gi,
                 gather_chunks, answers>>

\* lines 91-94: describe_index raises, or reports the index not ready and
\* the loop sleeps, or reports it ready and the index is attached
Ingest_Poll ==
  /\ pc = "ingest" /\ ipc = "poll"
  /\ \/ ipc' = "raised" /\ UNCHANGED <<remote, index>>
        /\ ops' = Append(ops, "raise")
     \/ ipc' = "sleep" /\ UNCHANGED <<remote, index, ops>>
     \/ ipc' = "upsert" /\ remote' = "ready" /\ index' = TRUE
        /\ ops' = ops \o <<"ready", "attach">>
  /\ UNCHANGED <<req, searched>>
  /\ UNCHANGED <<pc, initialized, policy_preloaded, question_cache, gi,
                 gather_chunks, answers>>

\* line 92: time.sleep(1), then the loop polls again
Ingest_Sleep ==
  /\ pc = "ingest" /\ ipc = "sleep"
  /\ ipc' = "poll"
  /\ UNCHANGED <<pc, initialized, index, remote, policy_preloaded,
                 question_cache, gi, gather_chunks, answers>>

\* lines 97-108
Ingest_Upsert ==
  /\ pc = "ingest" /\ ipc = "upsert"
  /\ \/ ipc' = "raised" /\ ops' = ops \o <<"upsert", "raise">>
     \/ ipc' = "done" /\ ops' = Append(ops, "upsert")
  /\ UNCHANGED <<req, searched>>
  /\ UNCHANGED <<pc, initialized, index, remote, policy_preloaded,
                 question_cache, gi, gather_chunks, answers>>

\* lines 69-70: the ingestion call has returned
Run_IngestReturned ==
  /\ pc = "ingest" /\ ipc = "done"
  /\ policy_preloaded' = TRUE
  /\ ipc' = "none"
  /\ pc' = "clear"
  /\ ops' = <<"ingested">>
  /\ UNCHANGED <<req, searched>>
  /\ UNCHANGED <<initialized, index, remote, question_cache, gi,
                 gather_chunks, answers>>

\* Run_IngestRaised without the raise of line 73: the request goes on
Run_IngestRaised_GoOn ==
  /\ pc = "ingest" /\ ipc = "raised"
  /\ ipc' = "none"
  /\ pc' = "clear"
  /\ UNCHANGED <<initialized, index, remote, policy_preloaded,
                 question_cache, gi, gather_chunks, answers>>

\* lines 71-76: HTTPException 500
Run_IngestRaised ==
  /\ pc = "ingest" /\ ipc = "raised"
  /\ ipc' = "none"
  /\ pc' = "error500"
  /\ UNCHANGED <<initialized, index, remote, policy_preloaded,
                 question_cache, gi, gather_chunks, answers>>

\* Run_ClearCache without the clear() of line 82
Run_ClearCache_Keep ==
  /\ pc = "clear"
  /\ gather_chunks' = <<>>
  /\ gi' = 1
  /\ pc' = "gather"
  /\ ops' = <<>>
  /\ UNCHANGED <<req, searched>>
  /\ UNCHANGED <<initialized, index, remote, policy_preloaded, ipc, answers,
                 question_cache>>

\* line 82, and the entry of get_comprehensive_context (line 123)
Run_ClearCache ==
  /\ pc = "clear"
  /\ question_cache' = EmptyMap
  /\ gather_chunks' = <<>>
  /\ gi' = 1
  /\ pc' = "gather"
  /\ ops' = <<>>
  /\ UNCHANGED <<req, searched>>
  /\ UNCHANGED <<initialized, index, remote, policy_preloaded, ipc, answers>>

\* ------------------------------------ get_comprehensive_context, batch
\* Gather_Start handing every search to a thread before any is awaited
Gather_Start_FanOut ==
  /\ pc = "gather"
  /\ \E i \in gi..Len(questions) :
       /\ i \notin inflight
       /\ inflight' = inflight \cup {i}
  /\ searched' = TRUE
  /\ UNCHANGED <<req, ops, gather_log>>
  /\ UNCHANGED <<pc, initialized, index, remote, policy_preloaded, ipc,
                 question_cache, gi, gather_chunks, answers>>

\* lines 126-133: the loop hands the search of questions[gi] to a worker
\* thread and awaits it before it goes on
Gather_Start ==
  /\ pc = "gather" /\ gi <= Len(questions)
  /\ inflight = {}
  /\ inflight' = {gi}
  /\ searched' = TRUE
  /\ UNCHANGED <<req, ops, gather_log>>
  /\ UNCHANGED <<pc, initialized, index, remote, policy_preloaded, ipc,
                 question_cache, gi, gather_chunks, answers>>

\* Gather_Search ending the loop at the first search that fails
Gather_Search_StopOnFail ==
  /\ pc = "gather" /\ gi <= Len(questions)
  /\ gi \in inflight
  /\ inflight' = inflight \ {gi}
  /\ \/ /\ UNCHANGED gather_chunks
        /\ gather_log' = Append(gather_log, "fail")
        /\ gi' = Len(questions) + 1
     \/ \E context \in SearchResults :
          /\ gather_chunks' = SetUpdate(gather_chunks, context)
          /\ gather_log' = Append(gather_log, "ok")
          /\ gi' = gi + 1
  /\ UNCHANGED <<req, ops, searched>>
  /\ UNCHANGED <<pc, initialized, index, remote, policy_preloaded, ipc,
                 question_cache, answers>>

\* lines 129-136: the awaited search ends; its chunks go into the set, and
\* a failure is only logged
Gather_Search ==
  /\ pc = "gather" /\ gi <= Len(questions)
  /\ gi \in inflight
  /\ inflight' = inflight \ {gi}
  /\ \/ /\ UNCHANGED gather_chunks
        /\ gather_log' = Append(gather_log, "fail")
     \/ \E context \in SearchResults :
          /\ gather_chunks' = SetUpdate(gather_chunks, context)
          /\ gather_log' = Append(gather_log, "ok")
  /\ gi' = gi + 1
  /\ UNCHANGED <<req, ops, searched>>
  /\ UNCHANGED <<pc, initialized, index, remote, policy_preloaded, ipc,
                 question_cache, answers>>

\* lines 138-141, and the call of lines 92-96
Run_CallBatch ==
  /\ pc = "gather" /\ gi > Len(questions)
  /\ pc' = "batch"
  /\ bpc' = "begin"
  /\ context_chunks' = gather_chunks
  /\ max_retries' = RunMaxRetries
  /\ UNCHANGED <<questions, answers_map, retry_map, results, missing_indices,
                 calls, batch_ret>>
  /\ UNCHANGED <<initialized, index, remote, policy_preloaded, ipc,
                 question_cache, gi, gather_chunks, answers>>

\* lines 92-98 and 115: the batch answers are the response
Run_BatchReturned ==
  /\ pc = "batch" /\ bpc = "returned"
  /\ answers' = batch_ret
  /\ pc' = "done"
  /\ UNCHANGED <<initialized, index, remote, policy_preloaded, ipc,
                 question_cache, gi, gather_chunks>>
  /\ UNCHANGED fbVars

\* Run_BatchRaised answering at once, without the loop of lines 104-112
Run_BatchRaised_NoFallback ==
  /\ pc = "batch" /\ bpc = "raised"
  /\ answers' = <<>>
  /\ pc' = "done"
  /\ UNCHANGED <<initialized, index, remote, policy_preloaded, ipc,
                 question_cache, gi, gather_chunks>>
  /\ UNCHANGED batchVars
  /\ UNCHANGED fbVars

\* lines 100-103: the batch path raised; start the fallback loop.  The
\* chunk pool of get_comprehensive_context and the argument of the call
\* that raised are out of scope and never read again.
Run_BatchRaised ==
  /\ pc = "batch" /\ bpc = "raised"
  /\ answers' = <<>>
  /\ fi' = 1
  /\ pc' = "fallback"
  /\ gather_chunks' = <<>>
  /\ context_chunks' = <<>>
  /\ UNCHANGED <<questions, max_retries, bpc, answers_map, retry_map, results,
                 missing_indices, calls, batch_ret>>
  /\ UNCHANGED <<initialized, index, remote, policy_preloaded, ipc,
                 question_cache, gi>>
  /\ UNCHANGED <<ppc, pret, research_plan, attempt, pipe_chunks, tpos, top_k,
                 local_chunks, run_found, run_attempts, run_yields, runs>>

\* ------------------------------------------ run_single_question_pipeline
\* what plan_and_research can return for a question: the identity fallback
\* or a decoded, non-empty JSON object
PlanOutcomes(question) ==
  { [s \in {question} |-> <<question>>],
    [s \in {"s1"} |-> <<"h1", "h2">>],
    [s \in {"s1", "s2"} |-> <<"h1">>],
    [s \in {"s1"} |-> <<>>] }

\* the retrieval breadths of line 166
BreadthSingle == 20

BreadthMulti == 40

BreadthRetry == 60

\* TopK with the breadth of the first attempt kept for every attempt
TopK_FirstAttempt(att, plan) ==
  IF Cardinality(DOMAIN plan) > 1 THEN BreadthMulti ELSE BreadthSingle

\* line 166: top_k of a task, from the attempt the loop is at when the task
\* starts and the size of the plan
TopK(att, plan) ==
  IF att > 0 THEN BreadthRetry
  ELSE IF Cardinality(DOMAIN plan) > 1 THEN BreadthMulti ELSE BreadthSingle

RECURSIVE UpdateAll(_, _, _)
UpdateAll(set, f, todo) ==
  IF todo = {} THEN set
  ELSE LET s == CHOOSE x \in todo : TRUE
       IN UpdateAll(SetUpdate(set, f[s]), f, todo \ {s})

\* lines 176-178: attempt_chunks, the chunk sets of all tasks merged
UnionAll(f) == UpdateAll(<<>>, f, DOMAIN f)

\* the locals of a pipeline run die with the run
ResetPipelineLocals ==
  /\ research_plan' = EmptyMap
  /\ attempt' = 0
  /\ pipe_chunks' = <<>>
  /\ tpos' = EmptyMap
  /\ top_k' = EmptyMap
  /\ local_chunks' = EmptyMap
  /\ run_found' = FALSE
  /\ run_attempts' = 0
  /\ run_yields' = <<>>

\* the run of questions[fi] ends: it returns val, or raises.  The record
\* kept of the run: whether it planned, whether a search returned a chunk,
\* the attempts it started and whether each completed attempt yielded a
\* chunk, whether synthesize_final_answer was called, whether the chunks
\* handed to it were all strings, the completion requests that call issued
\* and whether its request failed
EndRunWith(raised, val, planned, synth, yields, texts, requests, failed) ==
  /\ ppc' = IF raised THEN "raised" ELSE "returned"
  /\ pret' = val
  /\ runs' = Append(runs, [q |-> questions[fi], raised |-> raised,
                           val |-> val, planned |-> planned,
                           found |-> run_found, attempts |-> run_attempts,
                           yields |-> yields, synth |-> synth,
                           texts |-> texts, requests |-> requests,
                           failed |-> failed])

\* a run that ends outside synthesize_final_answer
EndRun(raised, val, planned, synth) ==
  EndRunWith(raised, val, planned, synth, run_yields, TRUE, 0, FALSE)

\* Pipeline_Start without the cache lookup of lines 150-152
Pipeline_Start_NoLookup ==
  /\ pc = "fallback" /\ ppc = "none" /\ fi <= Len(questions)
  /\ ppc' = "plan"
  /\ UNCHANGED <<pret, runs, run_found>>
  /\ UNCHANGED <<research_plan, attempt, pipe_chunks, tpos, top_k, local_chunks,
                 run_attempts, run_yields, fi>>
  /\ UNCHANGED reqVars

\* lines 104-107 and 148-152: the next question, and its cache lookup
Pipeline_Start ==
  /\ pc = "fallback" /\ ppc = "none" /\ fi <= Len(questions)
  /\ IF questions[fi] \in DOMAIN question_cache
     THEN /\ UNCHANGED run_found
          /\ EndRun(FALSE, question_cache[questions[fi]], FALSE, FALSE)
     ELSE /\ ppc' = "plan"
          /\ UNCHANGED <<pret, runs, run_found>>
  /\ UNCHANGED <<research_plan, attempt, pipe_chunks, tpos, top_k, local_chunks,
                 run_attempts, run_yields, fi>>
  /\ UNCHANGED reqVars

\* lines 155-160, and the tasks of the first attempt (line 172)
Pipeline_Plan ==
  /\ pc = "fallback" /\ ppc = "plan"
  /\ \E plan \in PlanOutcomes(questions[fi]) :
       /\ research_plan' = plan
       /\ tpos' = [s \in DOMAIN plan |-> 0]
       /\ top_k' = [s \in DOMAIN plan |-> TopK(0, plan)]
       /\ local_chunks' = [s \in DOMAIN plan |-> <<>>]
  /\ attempt' = 0
  /\ pipe_chunks' = <<>>
  /\ run_attempts' = 1
  /\ run_yields' = <<>>
  /\ ppc' = "retrieve"
  /\ UNCHANGED <<fi, pret, run_found, runs>>
  /\ UNCHANGED reqVars

\* lines 167-169: one search_and_rerank call of the task of sub-question s;
\* an exception of the call leaves the gather of line 173 and the pipeline
Pipeline_Search(s) ==
  /\ pc = "fallback" /\ ppc = "retrieve"
  /\ tpos[s] < Len(research_plan[s])
  /\ \/ /\ EndRun(TRUE, <<>>, TRUE, FALSE)
        /\ ResetPipelineLocals
     \/ \E context \in SearchResults :
          /\ local_chunks' =
               [local_chunks EXCEPT ![s] = SetUpdate(local_chunks[s], context)]
          /\ tpos' = [tpos EXCEPT ![s] = tpos[s] + 1]
          /\ run_found' = (run_found \/ context # <<>>)
          /\ UNCHANGED <<ppc, pret, runs, research_plan, attempt, pipe_chunks,
                         run_attempts, run_yields, top_k>>
  /\ UNCHANGED fi
  /\ UNCHANGED reqVars
  /\ searched' = TRUE
  /\ UNCHANGED <<req, ops>>

\* AfterLoop without the test of line 190
AfterLoop_NoEmptyTest(chunks) == "synth"

\* lines 190-196: where the pipeline goes after the retry loop
AfterLoop(chunks) == IF chunks = <<>> THEN "not_found" ELSE "synth"

\* LeaveLoop without the break of lines 185-186
LeaveLoop_NoBreak(attempt_chunks, att) == att + 1 >= PipelineMaxRetries

\* lines 162 and 185-186: the retry loop ends when the attempt found a chunk
\* or was the last of range(max_retries)
LeaveLoop(attempt_chunks, att) ==
  attempt_chunks # <<>> \/ att + 1 >= PipelineMaxRetries

\* lines 173-192: the gather of an attempt completes; leave the loop with
\* chunks, retry once without, or give up with the not-found message
Pipeline_Join ==
  /\ pc = "fallback" /\ ppc = "retrieve"
  /\ \A s \in DOMAIN research_plan : tpos[s] = Len(research_plan[s])
  /\ LET attempt_chunks == UnionAll(local_chunks)
         all_chunks == SetUpdate(pipe_chunks, attempt_chunks)
         yields == Append(run_yields, attempt_chunks # <<>>)
     IN IF LeaveLoop(attempt_chunks, attempt)
        THEN IF AfterLoop(all_chunks) = "not_found"
             THEN /\ EndRunWith(FALSE, NotFoundMessage, TRUE, FALSE, yields,
                                TRUE, 0, FALSE)
                  /\ ResetPipelineLocals
             ELSE /\ ppc' = "synth"
                  /\ pipe_chunks' = all_chunks
                  /\ run_yields' = yields
                  /\ UNCHANGED <<pret, runs, research_plan, attempt, tpos, top_k,
                                 local_chunks, run_found, run_attempts>>
        ELSE /\ attempt' = attempt + 1
             /\ run_attempts' = run_attempts + 1
             /\ run_yields' = yields
             /\ pipe_chunks' = all_chunks
             /\ tpos' = [s \in DOMAIN research_plan |-> 0]
             /\ top_k' = [s \in DOMAIN research_plan |->
                            TopK(attempt + 1, research_plan)]
             /\ local_chunks' = [s \in DOMAIN research_plan |-> <<>>]
             /\ UNCHANGED <<ppc, pret, runs, research_plan, run_found>>
  /\ UNCHANGED fi
  /\ UNCHANGED reqVars

\* SynthOutcomes with the completion call outside the try of line 57
SynthOutcomes_Uncaught(context) ==
  IF "nontext" \in Range(context)
  THEN {[raised |-> TRUE, val |-> <<>>, requests |-> 0, failed |-> FALSE]}
  ELSE {[raised |-> FALSE, val |-> t, requests |-> 1, failed |-> FALSE] :
          t \in SingleTexts}
       \cup {[raised |-> TRUE, val |-> <<>>, requests |-> 1, failed |-> TRUE]}

\* what one call of synthesize_final_answer (lines 31-64) can do with a
\* context list: the join of line 31 raises on a chunk that is not a string,
\* before any request; otherwise one completion request is issued, and it
\* gives response.text or, if it fails, the error placeholder
SynthOutcomes(context) ==
  IF "nontext" \in Range(context)
  THEN {[raised |-> TRUE, val |-> <<>>, requests |-> 0, failed |-> FALSE]}
  ELSE {[raised |-> FALSE, val |-> t, requests |-> 1, failed |-> FALSE] :
          t \in SingleTexts}
       \cup {[raised |-> FALSE, val |-> ErrorPlaceholder, requests |-> 1,
              failed |-> TRUE]}

\* Pipeline_Synthesize leaving the error placeholder out of the cache
Pipeline_Synthesize_SkipPlaceholder ==
  /\ pc = "fallback" /\ ppc = "synth"
  /\ \E o \in SynthOutcomes(pipe_chunks) :
       /\ question_cache' =
            IF o.raised \/ o.failed THEN question_cache
            ELSE MapPut(question_cache, questions[fi], o.val)
       /\ EndRunWith(o.raised, o.val, TRUE, TRUE, run_yields,
                     "nontext" \notin Range(pipe_chunks), o.requests,
                     o.failed)
  /\ ResetPipelineLocals
  /\ UNCHANGED fi
  /\ UNCHANGED <<pc, initialized, index, remote, policy_preloaded, ipc, gi,
                 gather_chunks, answers>>

\* lines 197-202: synthesize_final_answer is called with the pool; its
\* answer is cached and returned, its exception leaves the pipeline
Pipeline_Synthesize ==
  /\ pc = "fallback" /\ ppc = "synth"
  /\ \E o \in SynthOutcomes(pipe_chunks) :
       /\ question_cache' =
            IF o.raised THEN question_cache
            ELSE MapPut(question_cache, questions[fi], o.val)
       /\ EndRunWith(o.raised, o.val, TRUE, TRUE, run_yields,
                     "nontext" \notin Range(pipe_chunks), o.requests,
                     o.failed)
  /\ ResetPipelineLocals
  /\ UNCHANGED fi
  /\ UNCHANGED <<pc, initialized, index, remote, policy_preloaded, ipc, gi,
                 gather_chunks, answers>>

\* lines 107-108
Fallback_Append ==
  /\ pc = "fallback" /\ ppc = "returned"
  /\ answers' = Append(answers, pret)
  /\ fi' = fi + 1
  /\ ppc' = "none"
  /\ pret' = <<>>
  /\ UNCHANGED <<research_plan, attempt, pipe_chunks, tpos, top_k, local_chunks,
                 run_found, run_attempts, run_yields, runs>>
  /\ UNCHANGED <<pc, initialized, index, remote, policy_preloaded, ipc,
                 question_cache, gi, gather_chunks>>

\* Fallback_Catch leaving the loop after the failed question
Fallback_Catch_Abort ==
  /\ pc = "fallback" /\ ppc = "raised"
  /\ answers' = Append(answers, ErrorMessage(questions[fi]))
  /\ fi' = Len(questions) + 1
  /\ ppc' = "none"
  /\ pret' = <<>>
  /\ UNCHANGED <<research_plan, attempt, pipe_chunks, tpos, top_k, local_chunks,
                 run_found, run_attempts, run_yields, runs>>
  /\ UNCHANGED <<pc, initialized, index, remote, policy_preloaded, ipc,
                 question_cache, gi, gather_chunks>>

\* lines 109-112
Fallback_Catch ==
  /\ pc = "fallback" /\ ppc = "raised"
  /\ answers' = Append(answers, ErrorMessage(questions[fi]))
  /\ fi' = fi + 1
  /\ ppc' = "none"
  /\ pret' = <<>>
  /\ UNCHANGED <<research_plan, attempt, pipe_chunks, tpos, top_k, local_chunks,
                 run_found, run_attempts, run_yields, runs>>
  /\ UNCHANGED <<pc, initialized, index, remote, policy_preloaded, ipc,
                 question_cache, gi, gather_chunks>>

\* line 115, reached from the fallback loop
Fallback_Done ==
  /\ pc = "fallback" /\ ppc = "none" /\ fi > Len(questions)
  /\ pc' = "done"
  /\ UNCHANGED <<initialized, index, remote, policy_preloaded, ipc,
                 question_cache, gi, gather_chunks, answers>>
  /\ UNCHANGED fbVars

\* ------------------------------------------------------ the request
\* a request with its question list has arrived at a fresh process; the
\* named index may or may not exist in the index service
Init ==
  /\ InitParseIdle
  /\ questions \in QuestionLists
  /\ context_chunks = <<>>
  /\ max_retries = 0
  /\ bpc = "idle"
  /\ InitBatchLocals
  /\ pc = "start"
  /\ initialized = FALSE
  /\ index = FALSE
  /\ remote \in {"absent", "ready"}
  /\ policy_preloaded = FALSE
  /\ ipc = "none"
  /\ question_cache = EmptyMap
  /\ gi = 0
  /\ gather_chunks = <<>>
  /\ answers = <<>>
  /\ InitFallbackIdle
  /\ req = 1
  /\ ops = <<>>
  /\ searched = FALSE
  /\ inflight = {}
  /\ gather_log = <<>>
  /\ InitUnitsIdle

\* requests are serialized: the next one arrives once the response or the
\* HTTP 500 of the previous one is out; the service manager and its
\* services live on, the locals of the handler start afresh
Run_NewRequest ==
  /\ pc \in {"done", "error500"}
  /\ req < MaxRequests
  /\ req' = req + 1
  /\ questions' \in QuestionLists
  /\ pc' = "start"
  /\ ipc' = "none"
  /\ gi' = 0
  /\ gather_chunks' = <<>>
  /\ answers' = <<>>
  /\ context_chunks' = <<>>
  /\ max_retries' = 0
  /\ bpc' = "idle"
  /\ answers_map' = EmptyMap
  /\ retry_map' = EmptyMap
  /\ results' = <<>>
  /\ missing_indices' = <<>>
  /\ calls' = <<>>
  /\ batch_ret' = <<>>
  /\ fi' = 0
  /\ ppc' = "none"
  /\ pret' = <<>>
  /\ runs' = <<>>
  /\ ResetPipelineLocals
  /\ ops' = <<>>
  /\ searched' = FALSE
  /\ inflight' = {}
  /\ gather_log' = <<>>
  /\ UNCHANGED <<initialized, index, remote, policy_preloaded,
                 question_cache>>
  /\ UNCHANGED <<parseVars, unitVars>>

Next ==
  \/ Run_Initialize
       /\ UNCHANGED <<parseVars, unitVars, gatherVars, batchVars, fbVars, logVars>>
  \/ Run_EnsureIndex
       /\ UNCHANGED <<parseVars, unitVars, gatherVars, batchVars, fbVars>>
  \/ Ingest_Extract
       /\ UNCHANGED <<parseVars, unitVars, gatherVars, batchVars, fbVars>>
  \/ Ingest_Setup
       /\ UNCHANGED <<parseVars, unitVars, gatherVars, batchVars, fbVars>>
  \/ Ingest_Create
       /\ UNCHANGED <<parseVars, unitVars, gatherVars, batchVars, fbVars>>
  \/ Ingest_Poll
       /\ UNCHANGED <<parseVars, unitVars, gatherVars, batchVars, fbVars>>
  \/ Ingest_Sleep
      /\ UNCHANGED <<parseVars, unitVars, gatherVars, batchVars, fbVars, logVars>>
  \/ Ingest_Upsert
       /\ UNCHANGED <<parseVars, unitVars, gatherVars, batchVars, fbVars>>
  \/ Run_IngestReturned
       /\ UNCHANGED <<parseVars, unitVars, gatherVars, batchVars, fbVars>>
  \/ Run_IngestRaised
       /\ UNCHANGED <<parseVars, unitVars, gatherVars, batchVars, fbVars, logVars>>
  \/ Run_ClearCache
       /\ UNCHANGED <<parseVars, unitVars, gatherVars, batchVars, fbVars>>
  \/ Gather_Start /\ UNCHANGED <<parseVars, unitVars, batchVars, fbVars>>
  \/ Gather_Search /\ UNCHANGED <<parseVars, unitVars, batchVars, fbVars>>
  \/ Run_CallBatch
       /\ UNCHANGED <<parseVars, unitVars, gatherVars, fbVars, logVars>>
  \/ Batch_Join /\ gather_log' = <<>> /\ UNCHANGED inflight
       /\ UNCHANGED <<parseVars, unitVars, reqVars, fbVars, logVars>>
  \/ Batch_Attempt1
       /\ UNCHANGED <<parseVars, unitVars, gatherVars, reqVars, fbVars, logVars>>
  \/ Batch_Attempt2
       /\ UNCHANGED <<parseVars, unitVars, gatherVars, reqVars, fbVars, logVars>>
  \/ Run_BatchReturned
       /\ UNCHANGED <<parseVars, unitVars, gatherVars, batchVars, logVars>>
  \/ Run_BatchRaised
       /\ UNCHANGED <<parseVars, unitVars, gatherVars, logVars>>
  \/ Pipeline_Start
       /\ UNCHANGED <<parseVars, unitVars, gatherVars, batchVars, logVars>>
  \/ Pipeline_Plan
       /\ UNCHANGED <<parseVars, unitVars, gatherVars, batchVars, logVars>>
  \/ (\E s \in DOMAIN research_plan : Pipeline_Search(s))
       /\ UNCHANGED <<parseVars, unitVars, gatherVars, batchVars>>
  \/ Pipeline_Join
       /\ UNCHANGED <<parseVars, unitVars, gatherVars, batchVars, logVars>>
  \/ Pipeline_Synthesize
       /\ UNCHANGED <<parseVars, unitVars, gatherVars, batchVars, logVars>>
  \/ Fallback_Append
       /\ UNCHANGED <<parseVars, unitVars, gatherVars, batchVars, logVars>>
  \/ Fallback_Catch
       /\ UNCHANGED <<parseVars, unitVars, gatherVars, batchVars, logVars>>
  \/ Fallback_Done
       /\ UNCHANGED <<parseVars, unitVars, gatherVars, batchVars, logVars>>
  \/ Run_NewRequest

Spec == Init /\ [][Next]_vars

\* Ingest_PollReady of an index that is never reported ready
Ingest_PollReady_Never == Ingest_Poll /\ FALSE

\* line 91: describe_index reports the index ready
Ingest_PollReady == Ingest_Poll /\ ipc' = "upsert"

\* every call returns or raises, so the handler always takes its next step
\* (the await points of run.py and the blocking calls of the services);
\* an index that has been created reports ready at some poll
\* the requests of SpecLive carry at most LiveMaxQ questions
InitLive == Init /\ Len(questions) <= LiveMaxQ

NextLive == Next /\ Len(questions') <= LiveMaxQ

SpecLive ==
  /\ InitLive /\ [][NextLive]_vars
  /\ WF_vars(NextLive)
  /\ SF_vars(Ingest_PollReady /\ UNCHANGED <<parseVars, unitVars, gatherVars,
                                              batchVars, fbVars>>)

\* ------------------------------------------- search_and_rerank on its own
MaxMatches == 3

MaxTopN == 2

MaxScore == 2

\* the texts stored as the payload of the vectors
SearchTexts == {"c1", "c2"}

\* the relevance scores the reranker can give
Scores == 0..MaxScore

Min(a, b) == IF a <= b THEN a ELSE b

\* line 135: zip(scores, retrieved_chunks); at is the place of the pair in
\* the retrieval order, which the tuples of the code do not carry
Zip(sc, ch) ==
  [i \in 1..Min(Len(sc), Len(ch)) |->
     [score |-> sc[i], chunk |-> ch[i], at |-> i]]

\* InsertDesc putting x before the entries of equal score
InsertDesc_BeforeEqual(sorted, x) ==
  LET k == Cardinality({i \in 1..Len(sorted) : sorted[i].score > x.score})
  IN SubSeq(sorted, 1, k) \o <<x>> \o SubSeq(sorted, k + 1, Len(sorted))

\* line 136: sort(key=score, reverse=True) is stable; an entry goes behind
\* every entry already placed whose score is not lower
InsertDesc(sorted, x) ==
  LET k == Cardinality({i \in 1..Len(sorted) : sorted[i].score >= x.score})
  IN SubSeq(sorted, 1, k) \o <<x>> \o SubSeq(sorted, k + 1, Len(sorted))

RECURSIVE SortDesc(_)
SortDesc(s) ==
  IF s = <<>> THEN <<>>
  ELSE InsertDesc(SortDesc(SubSeq(s, 1, Len(s) - 1)), s[Len(s)])

\* line 138: the slice [:n] of a list, for n >= 0
Slice(s, n) == SubSeq(s, 1, Min(n, Len(s)))

InitSearch ==
  /\ InitParseIdle
  /\ questions = <<>>
  /\ context_chunks = <<>>
  /\ max_retries = 0
  /\ bpc = "idle"
  /\ InitBatchLocals
  /\ InitRequestIdle
  /\ InitPlanIdle
  /\ spc = "check"
  /\ s_index \in BOOLEAN
  /\ top_k_retrieval \in 1..MaxMatches
  /\ top_n_rerank \in 1..MaxTopN
  /\ retrieved_chunks = <<>>
  /\ scores = <<>>
  /\ scored_chunks = <<>>
  /\ sret = [kind |-> "none", val |-> <<>>]
  /\ slog = <<>>

\* Search_CheckIndex without the test of line 115
Search_CheckIndex_NoTest ==
  /\ spc = "check"
  /\ spc' = "embed"
  /\ UNCHANGED <<s_index, top_k_retrieval, top_n_rerank, retrieved_chunks,
                 scores, scored_chunks, sret, slog>>

\* lines 115-116
Search_CheckIndex ==
  /\ spc = "check"
  /\ IF ~s_index
     THEN spc' = "done" /\ sret' = [kind |-> "not_ready", val |-> <<>>]
     ELSE spc' = "embed" /\ UNCHANGED sret
  /\ UNCHANGED <<s_index, top_k_retrieval, top_n_rerank, retrieved_chunks,
                 scores, scored_chunks, slog>>

\* line 118: the query is embedded; an exception of the model propagates
Search_Embed ==
  /\ spc = "embed"
  /\ slog' = Append(slog, "embed")
  /\ \/ spc' = "done" /\ sret' = [kind |-> "error", val |-> <<>>]
     \/ spc' = "query" /\ UNCHANGED sret
  /\ UNCHANGED <<s_index, top_k_retrieval, top_n_rerank, retrieved_chunks,
                 scores, scored_chunks>>

\* lines 120-130: at most top_k matches come back, nearest first; with none
\* the call returns the empty list
Search_Query ==
  /\ spc = "query"
  /\ slog' = Append(slog, "query")
  /\ \/ /\ spc' = "done"
        /\ sret' = [kind |-> "error", val |-> <<>>]
        /\ UNCHANGED retrieved_chunks
     \/ \E m \in SeqsUpTo(SearchTexts, Min(top_k_retrieval, MaxMatches)) :
          /\ retrieved_chunks' = m
          /\ IF m = <<>>
             THEN spc' = "done" /\ sret' = [kind |-> "ok", val |-> <<>>]
             ELSE spc' = "predict" /\ UNCHANGED sret
  /\ UNCHANGED <<s_index, top_k_retrieval, top_n_rerank, scores,
                 scored_chunks>>

\* lines 132-133: one score for each (query, chunk) pair
Search_Predict ==
  /\ spc = "predict"
  /\ slog' = Append(slog, "predict")
  /\ \/ /\ spc' = "done"
        /\ sret' = [kind |-> "error", val |-> <<>>]
        /\ UNCHANGED scores
     \/ /\ scores' \in [1..Len(retrieved_chunks) -> Scores]
        /\ spc' = "sort"
        /\ UNCHANGED sret
  /\ UNCHANGED <<s_index, top_k_retrieval, top_n_rerank, retrieved_chunks,
                 scored_chunks>>

\* lines 135-140
Search_Sort ==
  /\ spc = "sort"
  /\ scored_chunks' = SortDesc(Zip(scores, retrieved_chunks))
  /\ sret' = [kind |-> "ok",
              val |-> LET top == Slice(scored_chunks', top_n_rerank)
                      IN [i \in 1..Len(top) |-> top[i].chunk]]
  /\ spc' = "done"
  /\ UNCHANGED <<s_index, top_k_retrieval, top_n_rerank, retrieved_chunks,
                 scores, slog>>

progVars == <<parseVars, batchVars, reqVars, fbVars, logVars, gatherVars>>

NextSearch ==
  \/ Search_CheckIndex /\ UNCHANGED <<progVars, planVars>>
  \/ Search_Embed /\ UNCHANGED <<progVars, planVars>>
  \/ Search_Query /\ UNCHANGED <<progVars, planVars>>
  \/ Search_Predict /\ UNCHANGED <<progVars, planVars>>
  \/ Search_Sort /\ UNCHANGED <<progVars, planVars>>

SpecSearch == InitSearch /\ [][NextSearch]_vars

\* ------------------------------------------- plan_and_research on its own
PlanQuestions == {"q1", "q2", "s1"}

\* line 37: json.dumps of a string puts it between double quotes
JsonDumps(str) == <<"\"", str, "\"">>

\* the texts a completion can carry
JsonTexts ==
  { "", "{\"s1\": ", "Plan: {\"s1\": [\"h1\"]}",
    "null", "3", "\"s1\"", "[]", "[{\"s1\": [\"h1\"]}]",
    "{}", "{\"s1\": [\"h1\", \"h2\"]}",
    "{\"s1\": [\"h1\"], \"s2\": [\"h1\"]}", "{\"s1\": []}" }

Decoded(kind, obj) == [ok |-> TRUE, kind |-> kind, obj |-> obj]

\* line 53: json.loads on these texts; ok is FALSE where it raises
JsonLoads(text) ==
  CASE text = "null" -> Decoded("null", EmptyMap)
    [] text = "3" -> Decoded("number", EmptyMap)
    [] text = "\"s1\"" -> Decoded("string", EmptyMap)
    [] text = "[]" -> Decoded("array", EmptyMap)
    [] text = "[{\"s1\": [\"h1\"]}]" -> Decoded("array", EmptyMap)
    [] text = "{}" -> Decoded("object", EmptyMap)
    [] text = "{\"s1\": [\"h1\", \"h2\"]}" ->
         Decoded("object", [s \in {"s1"} |-> <<"h1", "h2">>])
    [] text = "{\"s1\": [\"h1\"], \"s2\": [\"h1\"]}" ->
         Decoded("object", [s \in {"s1", "s2"} |-> <<"h1">>])
    [] text = "{\"s1\": []}" -> Decoded("object", [s \in {"s1"} |-> <<>>])
    [] OTHER -> [ok |-> FALSE, kind |-> "none", obj |-> EmptyMap]

\* lines 58 and 65
IdentityPlan(question) == [s \in {question} |-> <<question>>]

InitPlan ==
  /\ InitParseIdle
  /\ questions = <<>>
  /\ context_chunks = <<>>
  /\ max_retries = 0
  /\ bpc = "idle"
  /\ InitBatchLocals
  /\ InitRequestIdle
  /\ InitSearchIdle
  /\ plpc = "prompt"
  /\ plan_question \in PlanQuestions
  /\ safe_question = <<>>
  /\ response = NoResponse
  /\ response_data = NoData
  /\ plan_ret = EmptyMap

\* lines 37-49: json.dumps does not raise on a string
Plan_Prompt ==
  /\ plpc = "prompt"
  /\ safe_question' = JsonDumps(plan_question)
  /\ plpc' = "generate"
  /\ UNCHANGED <<plan_question, response, response_data, plan_ret>>

\* line 52: the completion call raises, or answers with a response whose
\* text can be read or not
Plan_Generate ==
  /\ plpc = "generate"
  /\ \/ /\ response' = [status |-> "raised", text |-> ""]
        /\ plpc' = "except"
     \/ /\ response' = [status |-> "unreadable", text |-> ""]
        /\ plpc' = "loads"
     \/ /\ \E t \in JsonTexts : response' = [status |-> "text", text |-> t]
        /\ plpc' = "loads"
  /\ UNCHANGED <<plan_question, safe_question, response_data, plan_ret>>

\* Plan_Loads outside the try of line 51
Plan_Loads_Uncaught ==
  /\ plpc = "loads"
  /\ IF response.status = "text" /\ JsonLoads(response.text).ok
     THEN /\ response_data' = [kind |-> JsonLoads(response.text).kind,
                               obj |-> JsonLoads(response.text).obj]
          /\ plpc' = "check"
     ELSE /\ plpc' = "raised"
          /\ UNCHANGED response_data
  /\ UNCHANGED <<plan_question, safe_question, response, plan_ret>>

\* line 53: response.text and json.loads, both inside the try
Plan_Loads ==
  /\ plpc = "loads"
  /\ IF response.status = "text" /\ JsonLoads(response.text).ok
     THEN /\ response_data' = [kind |-> JsonLoads(response.text).kind,
                               obj |-> JsonLoads(response.text).obj]
          /\ plpc' = "check"
     ELSE /\ plpc' = "except"
          /\ UNCHANGED response_data
  /\ UNCHANGED <<plan_question, safe_question, response, plan_ret>>

\* Plan_Check without the emptiness test of line 56
Plan_Check_NoEmptyTest ==
  /\ plpc = "check"
  /\ plan_ret' = IF response_data.kind # "object"
                 THEN IdentityPlan(plan_question)
                 ELSE response_data.obj
  /\ plpc' = "done"
  /\ UNCHANGED <<plan_question, safe_question, response, response_data>>

\* lines 56-60
Plan_Check ==
  /\ plpc = "check"
  /\ plan_ret' = IF response_data.kind # "object"
                    \/ response_data.obj = EmptyMap
                 THEN IdentityPlan(plan_question)
                 ELSE response_data.obj
  /\ plpc' = "done"
  /\ UNCHANGED <<plan_question, safe_question, response, response_data>>

\* lines 62-65
Plan_Except ==
  /\ plpc = "except"
  /\ plan_ret' = IdentityPlan(plan_question)
  /\ plpc' = "done"
  /\ UNCHANGED <<plan_question, safe_question, response, response_data>>

NextPlan ==
  \/ Plan_Prompt /\ UNCHANGED <<progVars, searchVars>>
  \/ Plan_Generate /\ UNCHANGED <<progVars, searchVars>>
  \/ Plan_Loads /\ UNCHANGED <<progVars, searchVars>>
  \/ Plan_Check /\ UNCHANGED <<progVars, searchVars>>
  \/ Plan_Except /\ UNCHANGED <<progVars, searchVars>>

SpecPlan == InitPlan /\ [][NextPlan]_vars

\* ------------------------------------------------------ claims: parser
DecDigits == {"0", "1", "2", "3", "4", "5", "6", "7", "8", "9"}

RECURSIVE DecValue(_)
DecValue(s) ==
  IF s = <<>> THEN 0
  ELSE 10 * DecValue(SubSeq(s, 1, Len(s) - 1))
       + (CHOOSE d \in 0..9 : DigitVal(s[Len(s)]) = d)

\* the line begins with j >= 1 decimal digits immediately followed by "."
PrefixAt(line, j) ==
  /\ j >= 1 /\ j < Len(line)
  /\ \A i \in 1..j : line[i] \in DecDigits
  /\ line[j + 1] = "."

HasNumberPrefix(line) == \E j \in 1..Len(line) : PrefixAt(line, j)

PrefixNumber(line) ==
  DecValue(SubSeq(line, 1, CHOOSE j \in 1..Len(line) : PrefixAt(line, j)))

PrefixRest(line) ==
  SubSeq(line, (CHOOSE j \in 1..Len(line) : PrefixAt(line, j)) + 2, Len(line))

RawLines == SplitLines(ptext)

IsAnswerLine(line) ==
  HasNumberPrefix(line) /\ Strip(PrefixRest(line)) # <<>>

AnswerLinesFor(k) ==
  {n \in 1..Len(RawLines) :
     /\ IsAnswerLine(Strip(RawLines[n]))
     /\ PrefixNumber(Strip(RawLines[n])) = k}

Max(S) == CHOOSE x \in S : \A y \in S : y <= x

N == Len(questions)

\* C2 as stated: one call of answerBatch issues at most maxTries completion
\* requests, for every non-negative maxTries.
C2_AtMostMaxTries == Len(calls) <= max_retries

\* the 1-based indices the first completion left without an answer
MissingAfterFirst == {i \in 1..N : i \notin DOMAIN answers_map}

\* C4: with maxTries >= 2, a non-empty set M of missing indices after the
\* first completion leads to exactly one further request, which lists
\* exactly the questions of M under their original 1-based numbers, in
\* ascending order; an empty M leads to no further request.
C4_OneRetryOfMissing ==
  (bpc = "returned" /\ max_retries >= 2) =>
    IF MissingAfterFirst # {}
    THEN /\ Len(calls) = 2
         /\ Len(calls[2].prompt) = Cardinality(MissingAfterFirst)
         /\ Range(calls[2].prompt) =
              {<<i, questions[i]>> : i \in MissingAfterFirst}
         /\ \A m, n \in 1..Len(calls[2].prompt) :
              m < n => calls[2].prompt[m][1] < calls[2].prompt[n][1]
    ELSE Len(calls) = 1

\* a retry for one missing question out of two, after a failed or partial
\* first completion
C4_Witness ==
  /\ bpc = "returned" /\ max_retries >= 2
  /\ N = 2 /\ MissingAfterFirst = {2}
  /\ Len(calls) = 2

\* C5: a slot answered by the first completion keeps its first-pass answer
\* in the returned list, whatever the retry response holds and whether or
\* not the retry call fails.
C5_RetryKeepsAnswered ==
  bpc = "returned" =>
    \A i \in 1..N : i \in DOMAIN answers_map => batch_ret[i] = answers_map[i]

\* the retry response carries a different answer for an answered index
C5_Witness ==
  /\ bpc = "returned" /\ Len(calls) = 2 /\ calls[2].ok
  /\ \E i \in 1..N :
       /\ i \in DOMAIN answers_map /\ i \in DOMAIN retry_map
       /\ retry_map[i] # answers_map[i]

\* the answers the two passes parsed for index i
Supplied(i) ==
  {m[i] : m \in {x \in {answers_map, retry_map} : i \in DOMAIN x}}

\* C6 as stated: every slot is the parsed answer of its index or the
\* sentinel, it is the sentinel exactly when no pass supplied an answer for
\* its index, and it is never empty.
C6_AsStated ==
  bpc = "returned" =>
    \A i \in 1..N :
      /\ batch_ret[i] \in Supplied(i) \cup {Sentinel}
      /\ (batch_ret[i] = Sentinel) <=> (Supplied(i) = {})
      /\ batch_ret[i] # <<>>

\* C6 amended: every slot is the non-empty answer parsed for its index or
\* the sentinel; a slot no pass supplied an answer for is the sentinel, and
\* a slot is the sentinel only if no pass supplied an answer for its index
\* or the supplied answer is itself the sentinel text; no slot is empty.
C6_SlotsAnswerOrSentinel ==
  bpc = "returned" =>
    \A i \in 1..N :
      /\ batch_ret[i] \in Supplied(i) \cup {Sentinel}
      /\ Supplied(i) = {} => batch_ret[i] = Sentinel
      /\ batch_ret[i] = Sentinel => (Supplied(i) = {} \/ Sentinel \in Supplied(i))
      /\ batch_ret[i] # <<>>

\* after two passes one slot holds a parsed answer and one the sentinel
\* because no pass answered it
C6_Witness ==
  /\ bpc = "returned" /\ Len(calls) = 2 /\ N = 2
  /\ Supplied(1) # {} /\ batch_ret[1] # Sentinel
  /\ Supplied(2) = {} /\ batch_ret[2] = Sentinel

\* C7: once a completion request has been issued, answerBatch does not
\* raise, whether the call fails or the response is missing or malformed:
\* it goes on to the retry or returns a list with one slot per question,
\* the slots no successful pass answered holding the sentinel.
C7_NoRaiseAfterCompletion ==
  /\ calls # <<>> => bpc \in {"attempt2", "returned"}
  /\ bpc = "returned" =>
       /\ Len(batch_ret) = N
       /\ (\A c \in 1..Len(calls) : ~calls[c].ok) =>
            \A i \in 1..N : batch_ret[i] = Sentinel

\* both completion calls failed and a list of sentinels was returned
C7_Witness ==
  /\ bpc = "returned" /\ N >= 1
  /\ Len(calls) = 2 /\ ~calls[1].ok /\ ~calls[2].ok
  /\ \A i \in 1..N : batch_ret[i] = Sentinel

\* -------------------------------------------------- claims: the request
\* what the fallback loop owes slot i: the value the pipeline run of
\* question i returned, or the per-question error string if that run raised
SlotOfRun(i) ==
  IF runs[i].raised THEN ErrorMessage(questions[i]) ELSE runs[i].val

\* C1: a request that returns a response returns one answer per question,
\* and entry i is the answer produced for question i: on the batch path the
\* answer parsed for index i (or the sentinel), on the fallback path the
\* outcome of the i-th pipeline run, which ran on question i.
C1_OneAnswerPerQuestion ==
  pc = "done" =>
    /\ Len(answers) = N
    /\ bpc = "returned" =>
         \A i \in 1..N : answers[i] \in Supplied(i) \cup {Sentinel}
    /\ bpc = "raised" =>
         /\ Len(runs) = N
         /\ \A i \in 1..N :
              runs[i].q = questions[i] /\ answers[i] = SlotOfRun(i)

\* a batch response for two questions whose first completion call failed
\* and whose retry answered both
C1_Witness ==
  /\ pc = "done" /\ bpc = "returned" /\ N = 2
  /\ Len(calls) = 2 /\ ~calls[1].ok
  /\ answers[1] # Sentinel /\ answers[2] # Sentinel
  /\ answers[1] # answers[2]

\* C8 as stated: whenever an exception occurs during batched synthesis, a
\* failed completion call included, every returned answer comes from the
\* fallback pipeline, run once per question in input order.
C8_AsStated ==
  (pc = "done" /\ (bpc = "raised" \/ \E c \in 1..Len(calls) : ~calls[c].ok)) =>
    /\ Len(runs) = N
    /\ \A i \in 1..N : runs[i].q = questions[i]

\* C8 amended: whenever answerBatch raises to the orchestrator, the batch
\* degrades to the fallback pipeline: the answers start again from the
\* empty list, the pipeline is run once per question in input order, and
\* every returned answer is the outcome of the run of its question.
C8_RaiseDegradesToFallback ==
  (bpc = "raised" /\ pc \in {"fallback", "done"}) =>
    /\ Len(runs) <= N
    /\ \A i \in 1..Len(runs) : runs[i].q = questions[i]
    /\ Len(answers) \in {Len(runs), Len(runs) - 1}
    /\ pc = "done" => (Len(runs) = N /\ Len(answers) = N)

\* the batch raised and the request was answered by two pipeline runs
C8_Witness ==
  /\ pc = "done" /\ bpc = "raised" /\ calls = <<>>
  /\ N = 2 /\ Len(runs) = 2 /\ Len(answers) = 2

\* C9: on the fallback path a run that raises gives its slot the generic
\* per-question error string, the later questions are still processed, and
\* every other slot holds exactly what its own run returned.
C9_FailureIsPerQuestion ==
  (pc \in {"fallback", "done"} /\ bpc = "raised") =>
    /\ \A i \in 1..Len(answers) :
         /\ runs[i].raised => answers[i] = ErrorMessage(questions[i])
         /\ ~runs[i].raised => answers[i] = runs[i].val
    /\ pc = "done" => Len(answers) = N

\* the run of the first question raised, the run of the second returned
C9_Witness ==
  /\ pc = "done" /\ bpc = "raised" /\ N = 2 /\ Len(runs) = 2
  /\ runs[1].raised /\ answers[1] = ErrorMessage(questions[1])
  /\ ~runs[2].raised /\ runs[2].planned /\ answers[2] = runs[2].val

\* C10: a pipeline run that planned and whose retrieval calls all returned
\* zero chunks made both attempts, returned the fixed not-found message,
\* which is not the batch sentinel, and did not call answerOne.
C10_EmptyRetrievalNotFound ==
  \A i \in 1..Len(runs) :
    (runs[i].planned /\ ~runs[i].found /\ ~runs[i].raised) =>
      /\ runs[i].val = NotFoundMessage
      /\ runs[i].val # Sentinel
      /\ ~runs[i].synth
      /\ runs[i].attempts = PipelineMaxRetries

\* a run planned, found no chunk in either attempt and answered its slot
\* with the not-found message
C10_Witness ==
  \E i \in 1..Len(runs) :
    /\ runs[i].planned /\ ~runs[i].found /\ ~runs[i].raised
    /\ runs[i].val = NotFoundMessage
    /\ Len(answers) >= i /\ answers[i] = NotFoundMessage

\* ------------------------------------------ claims: the fallback pipeline
PlannedRuns == {i \in 1..Len(runs) : runs[i].planned}

\* C11: a run makes at most two retrieval attempts; it makes the second one
\* if and only if the first one completed with zero chunks; an attempt that
\* yields a chunk is the last one and is followed by the call of answerOne,
\* which is only ever called with a non-empty pool.
C11_AttemptTransitions ==
  /\ \A i \in PlannedRuns :
       LET r == runs[i]
       IN /\ r.attempts \in 1..2
          /\ Len(r.yields) <= r.attempts
          /\ Len(r.yields) >= 1 => (r.attempts = 2 <=> ~r.yields[1])
          /\ \A k \in 1..Len(r.yields) :
               r.yields[k] => (k = Len(r.yields) /\ r.attempts = k /\ r.synth)
          /\ r.synth => (r.yields # <<>> /\ r.yields[Len(r.yields)])
  /\ ppc = "synth" => pipe_chunks # <<>>

\* a run whose first attempt found nothing and whose second attempt found a
\* chunk went on to answerOne
C11_Witness ==
  \E i \in PlannedRuns :
    /\ runs[i].yields = <<FALSE, TRUE>>
    /\ runs[i].attempts = 2 /\ runs[i].synth /\ ~runs[i].raised

\* the runs that reached done: answerOne returned and its answer was cached
DoneRuns == {i \in 1..Len(runs) : runs[i].synth /\ ~runs[i].raised}

CacheHits == {i \in 1..Len(runs) : ~runs[i].planned}

\* C12: a run on a question that is a key of the cache returns the cached
\* answer at once, with no planner, retrieval or completion call, and leaves
\* the cache as it is; a question repeated after a run on it reached done
\* gets the answer of that run.
C12_CacheHit ==
  pc \in {"fallback", "done"} =>
    /\ \A j \in CacheHits :
         /\ ~runs[j].raised /\ ~runs[j].synth /\ ~runs[j].found
         /\ runs[j].attempts = 0 /\ runs[j].requests = 0
         /\ runs[j].q \in DOMAIN question_cache
         /\ runs[j].val = question_cache[runs[j].q]
    /\ \A i \in DoneRuns : \A j \in 1..Len(runs) :
         (i < j /\ runs[j].q = runs[i].q) =>
           (j \in CacheHits /\ runs[j].val = runs[i].val)

\* the second of two equal questions was answered from the cache
C12_Witness ==
  /\ pc = "done" /\ Len(runs) = 2
  /\ 1 \in DoneRuns /\ 2 \in CacheHits
  /\ questions[1] = questions[2]
  /\ answers[2] = answers[1]

\* C13: with requests served one after the other, every request empties the
\* cache before any of its questions is processed; every cache hit of a
\* request returns an answer synthesized earlier in that same request, and
\* every key of the cache was written by a run of the current request.
C13_CacheClearedPerRequest ==
  /\ pc \in {"gather", "batch"} => question_cache = EmptyMap
  /\ pc \in {"fallback", "done"} =>
       /\ \A j \in CacheHits : \E i \in DoneRuns :
            i < j /\ runs[i].q = runs[j].q /\ runs[i].val = runs[j].val
       /\ \A q \in DOMAIN question_cache : \E i \in DoneRuns :
            runs[i].q = q /\ runs[i].val = question_cache[q]

\* a later request whose second question was answered from the cache
C13_Witness ==
  /\ req = 2 /\ pc = "done" /\ bpc = "raised"
  /\ 1 \in DoneRuns /\ 2 \in CacheHits

\* ------------------------------------------------- claims: the index
IngestOps == {"extract", "list", "found", "delete", "create", "ready",
              "attach", "upsert", "raise", "ingested"}

\* C14 as stated: a request that finds the named index in the index service
\* neither invokes the text extraction nor deletes the index.
C14_AsStated ==
  /\ (pc = "ingest" /\ ipc = "setup") => remote = "absent"
  /\ "delete" \notin Range(ops)

\* C14: a request that arrives with the index handle attached performs no
\* ingestion: it takes the else branch of line 77, no operation of the
\* ingestion call is made, and the ingestion steps up to the attachment of
\* line 94 only ever run without a handle.
C14_AttachedSkipsIngestion ==
  /\ ("skip" \in Range(ops)) =>
       /\ ops = <<"skip">> /\ index
       /\ pc \notin {"ingest", "error500"} /\ ipc = "none"
  /\ (pc = "ingest" /\ ipc \in {"extract", "setup", "create", "poll", "sleep"})
       => ~index
  /\ (Range(ops) \cap IngestOps # {}) => "skip" \notin Range(ops)

\* the first request found the handle attached by the constructor and has
\* passed the index step with the index untouched
C14_Witness ==
  /\ req = 1 /\ pc = "clear" /\ ops = <<"skip">> /\ index
  /\ remote = "ready"

\* C15: when the ingestion call of a request raises, at whatever step, the
\* request ends with the service error: it returns no answers and makes no
\* retrieval and no completion call.
C15_IngestFailureEndsRequest ==
  ("raise" \in Range(ops)) =>
    /\ pc \in {"ingest", "error500"}
    /\ pc = "ingest" => ipc = "raised"
    /\ answers = <<>> /\ ~searched /\ calls = <<>> /\ runs = <<>>
    /\ bpc = "idle" /\ ppc = "none"

\* the request ended with the service error after the index was created
C15_Witness ==
  /\ pc = "error500" /\ "create" \in Range(ops) /\ "raise" \in Range(ops)

\* --------------------------------------------- claims: search_and_rerank
Returned == Slice(scored_chunks, top_n_rerank)

Omitted == SubSeq(scored_chunks, Len(Returned) + 1, Len(scored_chunks))

\* C16: with at least one match the call returns min(top_n_rerank, number
\* of matches) texts, each the text of a distinct match, by score descending
\* with equal scores in retrieval order, and no match left out has a
\* strictly higher score than a returned one.
C16_TopNByScore ==
  (spc = "done" /\ sret.kind = "ok" /\ retrieved_chunks # <<>>) =>
    /\ Len(sret.val) = Min(top_n_rerank, Len(retrieved_chunks))
    /\ Len(scored_chunks) = Len(retrieved_chunks)
    /\ {scored_chunks[i].at : i \in 1..Len(scored_chunks)}
         = 1..Len(retrieved_chunks)
    /\ \A i \in 1..Len(scored_chunks) :
         /\ scored_chunks[i].chunk = retrieved_chunks[scored_chunks[i].at]
         /\ scored_chunks[i].score = scores[scored_chunks[i].at]
    /\ \A i \in 1..Len(sret.val) : sret.val[i] = Returned[i].chunk
    /\ \A i, j \in 1..Len(Returned) :
         i < j =>
           /\ Returned[i].score >= Returned[j].score
           /\ Returned[i].score = Returned[j].score
                => Returned[i].at < Returned[j].at
    /\ \A i \in 1..Len(Returned) : \A j \in 1..Len(Omitted) :
         Omitted[j].score <= Returned[i].score

\* three matches, the last two tied on the highest score, two returned
C16_Witness ==
  /\ spc = "done" /\ sret.kind = "ok"
  /\ Len(retrieved_chunks) = 3 /\ top_n_rerank = 2
  /\ scores[1] < scores[2] /\ scores[2] = scores[3]
  /\ sret.val = <<retrieved_chunks[2], retrieved_chunks[3]>>
  /\ retrieved_chunks[2] # retrieved_chunks[3]

\* C17: the call fails as not ready exactly when no index is attached, and
\* then neither the embedding model nor the index service has been called;
\* with an index attached and no match it returns the empty list and the
\* relevance scorer has not been called.
C17_NotReadyIffNoIndex ==
  /\ spc = "done" => (sret.kind = "not_ready" <=> ~s_index)
  /\ ~s_index => (slog = <<>> /\ spc \in {"check", "done"})
  /\ (spc = "done" /\ s_index /\ slog = <<"embed", "query">>
        /\ retrieved_chunks = <<>> /\ sret.kind # "error") =>
       sret = [kind |-> "ok", val |-> <<>>]
  /\ ("predict" \in Range(slog)) => (s_index /\ retrieved_chunks # <<>>)

\* the call made without an index has failed as not ready
C17_Witness ==
  /\ spc = "done" /\ ~s_index /\ sret.kind = "not_ready" /\ slog = <<>>

\* --------------------------------------------- claims: plan_and_research
DecodesToPlan ==
  /\ response.status = "text"
  /\ JsonLoads(response.text).ok
  /\ JsonLoads(response.text).kind = "object"
  /\ JsonLoads(response.text).obj # EmptyMap

\* C18: the call never raises and never returns an empty plan: it returns
\* the decoded object when the response decodes to a non-empty JSON object,
\* and the identity plan {question: [question]} in every other case, the
\* failure of the completion call included.
C18_PlanOrIdentity ==
  /\ plpc # "raised"
  /\ plpc = "done" =>
       /\ DOMAIN plan_ret # {}
       /\ plan_ret = IF DecodesToPlan
                     THEN JsonLoads(response.text).obj
                     ELSE IdentityPlan(plan_question)
       /\ plan_ret \in PlanOutcomes(plan_question)

\* the completion answered with an empty JSON object and the call returned
\* the identity plan
C18_Witness ==
  /\ plpc = "done" /\ response = [status |-> "text", text |-> "{}"]
  /\ plan_ret = IdentityPlan(plan_question)

\* ------------------------------------- claims: synthesize_final_answer
SynthRuns == {i \in 1..Len(runs) : runs[i].synth}

NoDuplicates(s) == \A i, j \in 1..Len(s) : s[i] = s[j] => i = j

\* C20: the context list handed to the synthesizer holds no text twice, on
\* the batch path (process_all_questions_with_retry) and on the fallback
\* path (synthesize_final_answer), whatever the searches returned; the sets
\* the lists are built from hold no text twice either.
C20_PoolHasNoDuplicates ==
  /\ NoDuplicates(gather_chunks)
  /\ NoDuplicates(context_chunks)
  /\ NoDuplicates(pipe_chunks)
  /\ \A s \in DOMAIN local_chunks : NoDuplicates(local_chunks[s])

\* the synthesizer is about to get a one-text list although two tasks of
\* the attempt each returned that text
C20_Witness ==
  /\ pc = "fallback" /\ ppc = "synth"
  /\ pipe_chunks = <<"c1">>
  /\ DOMAIN local_chunks = {"s1", "s2"}
  /\ \A s \in DOMAIN local_chunks : local_chunks[s] = <<"c1">>

\* --------------------------------- claims: get_comprehensive_context
\* the questions whose search has been handed to a thread so far
GatherStarted == (1..(gi - 1)) \cup inflight

At(op) ==
  IF op \in Range(ops) THEN CHOOSE i \in 1..Len(ops) : ops[i] = op ELSE 0

Before(a, b) == At(a) > 0 /\ At(a) < At(b)

\* C22: in an ingestion call past the extraction the index operations come
\* in this order: the named index is deleted if and only if the listing
\* found it, then the index is created, then it is polled until it reports
\* ready, then the handle is attached, then the vectors are upserted; no
\* upsert comes before the index was seen ready, and vectors only go into
\* an index this call created after no index of the name was left.
C22_IndexOpsInOrder ==
  /\ \A i, j \in 1..Len(ops) : ops[i] = ops[j] => i = j
  /\ "list" \in Range(ops) => Before("extract", "list")
  /\ "found" \in Range(ops) => At("found") = At("list") + 1
  /\ "delete" \in Range(ops) => At("delete") = At("found") + 1
  /\ ("found" \in Range(ops) /\ "create" \in Range(ops))
       => Before("delete", "create")
  /\ "create" \in Range(ops) => Before("list", "create")
  /\ "ready" \in Range(ops) => Before("create", "ready")
  /\ "attach" \in Range(ops) => At("attach") = At("ready") + 1
  /\ "upsert" \in Range(ops) => Before("attach", "upsert")
  /\ (pc = "ingest" /\ ipc = "create") => remote = "absent"
  /\ (pc = "ingest" /\ ipc = "upsert") => (remote = "ready" /\ index)

\* an ingestion call that found the index, replaced it and has upserted
C22_Witness ==
  /\ pc = "ingest" /\ ipc = "done"
  /\ ops = <<"extract", "list", "found", "delete", "create", "ready",
             "attach", "upsert">>

\* ------------------------------------- claims: the retrieval breadth
\* C23: every search call of a first attempt uses breadth 40 when the plan
\* has more than one sub-question and 20 when it has one, every search call
\* of a later attempt uses 60, and the tasks of an attempt all use the
\* breadth of that attempt.
C23_BreadthPerAttempt ==
  (pc = "fallback" /\ ppc = "retrieve") =>
    /\ DOMAIN top_k = DOMAIN research_plan
    /\ \A s \in DOMAIN research_plan :
         top_k[s] = IF attempt >= 1 THEN 60
                    ELSE IF Cardinality(DOMAIN research_plan) > 1 THEN 40
                    ELSE 20

\* a task of the second attempt of a two-question plan has searched
C23_Witness ==
  /\ pc = "fallback" /\ ppc = "retrieve" /\ attempt = 1
  /\ Cardinality(DOMAIN research_plan) = 2
  /\ \E s \in DOMAIN research_plan : tpos[s] > 0 /\ top_k[s] = 60

\* the extraction of the ingestion call raised
ExtractionFailed ==
  Len(ops) >= 2 /\ ops[1] = "extract" /\ ops[2] = "raise"

\* C25: when the extraction fails the ingestion call raises before any
\* index operation: nothing is listed, deleted, created or upserted, the
\* handle stays unattached as it was, and the request ends with the error.
C25_ExtractionFailureTouchesNothing ==
  ExtractionFailed =>
    /\ ops = <<"extract", "raise">>
    /\ ~index
    /\ pc \in {"ingest", "error500"}
    /\ pc = "ingest" => ipc = "raised"

\* the extraction failed and the index that exists was left alone
C25_Witness ==
  /\ pc = "error500" /\ ExtractionFailed
  /\ remote = "ready" /\ ~index

\* C26: after an ingestion call that failed at any step the index handle
\* is not attached by that call, so the next request ingests again.  The
\* handle is attached at line 94, before the upsert of line 107: a failed
\* upsert leaves it attached, and this statement is violated.
C26_FailedIngestLeavesNoHandle ==
  (pc = "ingest" /\ ipc = "raised") => ~index

\* the runs on question q that ended before run j
EarlierDone(q, j) == {i \in DoneRuns : i < j /\ runs[i].q = q}

\* C27: the cache holds exactly the answers returned by the calls of
\* synthesize_final_answer of this request, the error placeholder included,
\* each under its question; the not-found message and the error message of
\* the fallback loop are never cached, so a question repeated after such a
\* run is planned again; and the batch path leaves the cache empty.
C27_CacheWrittenOnlyBySynthesis ==
  /\ pc \in {"gather", "batch"} => (question_cache = EmptyMap /\ runs = <<>>)
  /\ pc \in {"gather", "batch", "fallback", "done"} =>
       /\ \A q \in DOMAIN question_cache :
            \E i \in DoneRuns :
              runs[i].q = q /\ runs[i].val = question_cache[q]
       /\ \A i \in DoneRuns :
            /\ runs[i].q \in DOMAIN question_cache
            /\ question_cache[runs[i].q] = runs[i].val
       /\ \A j \in 1..Len(runs) :
            (EarlierDone(runs[j].q, j) = {}) => runs[j].planned
       /\ \A q \in DOMAIN question_cache :
            /\ question_cache[q] # NotFoundMessage
            /\ question_cache[q] # ErrorMessage(q)

\* of two equal questions the first ended with the not-found message and
\* the second was planned again and cached the error placeholder
C27_Witness ==
  /\ pc = "done" /\ Len(runs) = 2 /\ runs[1].q = runs[2].q
  /\ runs[1].planned /\ ~runs[1].synth /\ ~runs[1].raised
  /\ runs[1].val = NotFoundMessage
  /\ runs[2].planned /\ runs[2].failed
  /\ question_cache = MapPut(EmptyMap, runs[2].q, ErrorPlaceholder)

\* a step of get_comprehensive_context that swallows a failed search, merges
\* the chunks of a search that returned, or hands the pool to the batch call
GatherStep ==
  pc = "gather" =>
    /\ gather_log' = Append(gather_log, "fail") =>
         /\ gather_chunks' = gather_chunks
         /\ gi' = gi + 1 /\ pc' = "gather"
    /\ gather_log' = Append(gather_log, "ok") =>
         /\ Range(gather_chunks) \subseteq Range(gather_chunks')
         /\ gi' = gi + 1 /\ pc' = "gather"
    /\ pc' # "gather" =>
         /\ pc' = "batch" /\ bpc' = "begin"
         /\ Len(gather_log) = Len(questions)
         /\ context_chunks' = gather_chunks

\* C28: a search that fails while the context of step 3 is gathered is
\* swallowed: its question adds no chunk, the loop goes on to the next
\* question, the chunks already merged stay in the pool, and the only way
\* out of the loop is the batch call on the pool gathered from every
\* question, empty or not.
C28_SearchFailureSwallowed == [][GatherStep]_vars

\* the batch call is made with the chunks of the second question after the
\* search of the first one failed
C28_Witness ==
  /\ pc = "batch" /\ bpc = "begin"
  /\ gather_log = <<"fail", "ok">>
  /\ context_chunks # <<>> /\ context_chunks = gather_chunks

\* ----------------------------------------------- claims: termination
Responded == pc \in {"done", "error500"}

\* C24: when every call returns or raises and a created index reports ready
\* at some poll, every request that has arrived ends with a response, the
\* answers or the service error; the polling loop itself has no bound: at
\* every poll another round of "not ready" and sleep is possible.
C24_EveryRequestResponds ==
  /\ [](pc = "start" => <>Responded)
  /\ []((pc = "ingest" /\ ipc = "poll") =>
         ENABLED (Ingest_Poll /\ ipc' = "sleep"))

\* the second of two requests has been answered, with the index in place
C24_Witness ==
  /\ req = 2 /\ pc = "done" /\ index /\ remote = "ready"
  /\ Len(answers) = Len(questions) /\ Len(questions) = LiveMaxQ

====
